---- MODULE Spec2Model ----
(***************************************************************************)
(* Model of the score-to-MIDI transcription engine of Partituras:          *)
(*   - DirectXMLtoMIDIConverter.get_note_events_from_staff (tie chains),   *)
(*   - DirectXMLtoMIDIConverter._get_key_signature,                        *)
(*   - AdvancedMSCZConverter._analyze_track_structure and                  *)
(*     _calculate_optimal_split,                                           *)
(*   - the delta-time track assembly of DirectXMLtoMIDIConverter.convert   *)
(*     and AdvancedMSCZConverter._create_separated_midi,                   *)
(*   - AdvancedMSCZConverter._enhance_existing_midi with                   *)
(*     _add_metadata_track,                                                *)
(*   - the early returns of DirectXMLtoMIDIConverter.convert and of        *)
(*     YamahaCSPConverter.convert.                                         *)
(* Each component has its own specification (SpecStaff, SpecKey, ...).     *)
(***************************************************************************)
EXTENDS Integers, Sequences, FiniteSets, TLC

(***************************************************************************)
(* Bounds of the model.                                                    *)
(***************************************************************************)
\* Number of elements (Chord, Rest, other) read from one staff.
MaxElems == 3
\* Number of KeySig declarations of a document.
MaxKeySigs == 2
\* Number of note_on messages (velocity > 0) of the analysed MIDI file.
MaxSplitNotes == 12
\* Number of tracks of the analysed MIDI file.
MaxTracks == 2
\* Number of events, over both inputs, given to the track assembly.
MaxTrackEvents == 3
\* Largest Division (ticks per quarter note) of the duration table check.
MaxDivision == 48
\* Number of messages of one track of the file that is copied.
MaxEnhMessages == 2
\* Number of staves, or of tracks, of the input of a structural conversion.
MaxSources == 3

(***************************************************************************)
(* Generic helpers.                                                        *)
(***************************************************************************)
SeqsUpTo(S, n) == UNION {[1..k -> S] : k \in 0..n}

RECURSIVE SumSeq(_)
SumSeq(s) == IF s = <<>> THEN 0 ELSE Head(s) + SumSeq(Tail(s))

(***************************************************************************)
(* Staff traversal: get_note_events_from_staff.                            *)
(***************************************************************************)
VARIABLES
    division,       \* int(root_node.find('.//Division').text)
    events,         \* the list `events` being built
    current_tick,   \* the tick cursor
    open_ties,      \* dict pitch -> (start_tick, total_duration)
    slot,           \* position of the loops: which (measure, voice) is being read
    nElems,         \* number of elements read so far
    staff_pc,       \* "scan" while the loops run, "done" after `return events`
    tie_voice,      \* history: the voice whose note created each open_ties entry
    noteLog,        \* history: one record per Note handled
    elemLog         \* history: one record per element read

staffVars == <<division, events, current_tick, open_ties, slot, nElems,
               staff_pc, tie_voice, noteLog, elemLog>>

\* Key signature search: _get_key_signature.
VARIABLES
    all_key_sigs,   \* root_node.findall('.//KeySig'), in document order
    ks_i,           \* index of the KeySig the loop is at
    key_result,     \* the returned key name, "none" until the function returns
    key_pc          \* "scan" while the loop runs, "done" after a return

keyVars == <<all_key_sigs, ks_i, key_result, key_pc>>

\* Track analysis: _analyze_track_structure, _calculate_optimal_split and the
\* branch of _optimize_for_smart_pianist.
VARIABLES
    an_track,         \* number of tracks the outer loop has entered
    has_notes,        \* has_notes of the track being read
    musical_tracks,   \* analysis['musical_tracks']
    channels_used,    \* analysis['channels_used']
    dist_low,         \* analysis['note_distribution']['low']
    dist_high,        \* analysis['note_distribution']['high']
    all_notes,        \* the list all_notes, kept as the count of each pitch in it
    needs_separation, \* analysis['needs_separation']
    split_point,      \* analysis['split_point']
    an_pc             \* "scan", "analyzed", then "separate" or "enhance"

splitVars == <<an_track, has_notes, musical_tracks, channels_used, dist_low,
               dist_high, all_notes, needs_separation, split_point, an_pc>>

\* Track assembly: the merge and delta-time loops of
\* DirectXMLtoMIDIConverter.convert and of _create_separated_midi.
VARIABLES
    tr_mode,        \* "convert" or "separate": which of the two procedures runs
    tr_input,       \* convert: <<right_hand_events, left_hand_events>>;
                    \* separate: original_mid.tracks
    tr_split,       \* separate: analysis['split_point']
    merged,         \* all_midi_events / combined_events once sorted
    tr_i,           \* index of the event the emitting loop is at
    right_track,    \* right_track / right_hand_track
    left_track,     \* left_track / left_hand_track
    last_right,     \* last_tick_right / right_last_time
    last_left,      \* last_tick_left / left_last_time
    tr_pc           \* "merge", "emit", "done"

trackVars == <<tr_mode, tr_input, tr_split, merged, tr_i, right_track,
               left_track, last_right, last_left, tr_pc>>

\* Duration of one element: lines 83-88 of get_note_events_from_staff.
VARIABLES
    dur_division,   \* ticks_per_quarter
    dur_type,       \* duration_type_node.text
    dur_dots,       \* element.find('dots') is not None
    dur_ticks,      \* base_duration, -1 until it is computed
    dur_pc          \* "resolve", then "done"

durVars == <<dur_division, dur_type, dur_dots, dur_ticks, dur_pc>>

\* Copy with metadata: _enhance_existing_midi and _add_metadata_track.
VARIABLES
    en_tracks,      \* original_mid.tracks
    en_meta,        \* metadata
    en_new,         \* new_mid.tracks
    en_i,           \* number of tracks the loop has copied
    en_pc           \* "copy" while the loop runs, "done" after the return

enhVars == <<en_tracks, en_meta, en_new, en_i, en_pc>>

\* The two structural conversions as a whole: DirectXMLtoMIDIConverter.convert
\* and YamahaCSPConverter.convert.
VARIABLES
    cv_kind,        \* "xml" or "csp": which convert runs
    cv_input,       \* xml: "unreadable", "no_division" or "ok";
                    \* csp: "failed" or "ok", the outcome of the MuseScore run
    cv_sources,     \* xml: the events of each Staff of all_staves;
                    \* csp: source_mid.tracks
    cv_result,      \* the value returned, "none" until the return
    cv_saved,       \* the tracks of the file saved, <<>> when none was saved
    cv_pc           \* "read", "count", "assemble", "done"

convVars == <<cv_kind, cv_input, cv_sources, cv_result, cv_saved, cv_pc>>

vars == <<staffVars, keyVars, splitVars, trackVars, durVars, enhVars, convVars>>
notStaff == <<keyVars, splitVars, trackVars, durVars, enhVars, convVars>>
notKey == <<staffVars, splitVars, trackVars, durVars, enhVars, convVars>>
notSplit == <<staffVars, keyVars, trackVars, durVars, enhVars, convVars>>
notTrack == <<staffVars, keyVars, splitVars, durVars, enhVars, convVars>>
notDur == <<staffVars, keyVars, splitVars, trackVars, enhVars, convVars>>
notEnh == <<staffVars, keyVars, splitVars, trackVars, durVars, convVars>>
notConv == <<staffVars, keyVars, splitVars, trackVars, durVars, enhVars>>

\* The state of a component that is not running.
IdleStaff ==
    /\ division = 0 /\ events = <<>> /\ current_tick = 0 /\ open_ties = <<>>
    /\ slot = 0 /\ nElems = 0 /\ staff_pc = "idle" /\ tie_voice = <<>>
    /\ noteLog = <<>> /\ elemLog = <<>>
IdleKey ==
    /\ all_key_sigs = <<>> /\ ks_i = 0 /\ key_result = "none" /\ key_pc = "idle"
IdleSplit ==
    /\ an_track = 0 /\ has_notes = FALSE /\ musical_tracks = 0
    /\ channels_used = {} /\ dist_low = 0 /\ dist_high = 0 /\ all_notes = <<>>
    /\ needs_separation = FALSE /\ split_point = 0 /\ an_pc = "idle"
IdleTrack ==
    /\ tr_mode = "idle" /\ tr_input = <<>> /\ tr_split = 0 /\ merged = <<>>
    /\ tr_i = 0 /\ right_track = <<>> /\ left_track = <<>>
    /\ last_right = 0 /\ last_left = 0 /\ tr_pc = "idle"

IdleDur ==
    /\ dur_division = 0 /\ dur_type = "none" /\ dur_dots = FALSE
    /\ dur_ticks = -1 /\ dur_pc = "idle"

IdleEnh ==
    /\ en_tracks = <<>> /\ en_meta = <<>> /\ en_new = <<>> /\ en_i = 0
    /\ en_pc = "idle"

IdleConv ==
    /\ cv_kind = "idle" /\ cv_input = "none" /\ cv_sources = <<>>
    /\ cv_result = "none" /\ cv_saved = <<>> /\ cv_pc = "idle"

\* Input domain of the staff traversal.
Divisions == {480}
Pitches == {60, 64}
\* Measures of the staff and voices of a measure, in document order; a voice
\* without elements behaves as an absent one.
Measures == 1..2
Voices == 1..2
NumSlots == Cardinality(Measures) * Cardinality(Voices)
MeasureOf(s) == ((s - 1) \div Cardinality(Voices)) + 1
VoiceOf(s) == ((s - 1) % Cardinality(Voices)) + 1

\* (durationType, dots present) of the elements read.
DurChoices == {<<"half", FALSE>>, <<"quarter", FALSE>>, <<"bogus", FALSE>>}
\* The Note children of a Chord: pitch, Spanner/prev present, Spanner/next present.
NoteNodes == [pitch : Pitches, prev : BOOLEAN, next : BOOLEAN]
ChordNotes == SeqsUpTo(NoteNodes, 1)
\* Chords of two Notes, of a quarter each.
TwoNoteChords ==
    {<<[pitch |-> 60, prev |-> FALSE, next |-> FALSE],
       [pitch |-> 64, prev |-> FALSE, next |-> TRUE]>>,
     <<[pitch |-> 60, prev |-> FALSE, next |-> TRUE],
       [pitch |-> 64, prev |-> TRUE, next |-> FALSE]>>}
\* The Chord elements read: (durationType, dots) and the Notes.
ChordChoices ==
    (DurChoices \X ChordNotes) \cup ({<<"quarter", FALSE>>} \X TwoNoteChords)

\* Mutant of duration_map: a category that is not in the table counts as a
\* quarter.
duration_map_DefaultQuarter(dtype, tpq) ==
    CASE dtype = "whole"   -> tpq * 4
      [] dtype = "half"    -> tpq * 2
      [] dtype = "quarter" -> tpq
      [] dtype = "eighth"  -> tpq \div 2
      [] dtype = "16th"    -> tpq \div 4
      [] dtype = "32nd"    -> tpq \div 8
      [] dtype = "64th"    -> tpq \div 16
      [] dtype = "measure" -> tpq * 2
      [] dtype = "black"   -> tpq
      [] dtype = "breve"   -> tpq * 2
      [] OTHER             -> tpq

\* duration_map of get_note_events_from_staff, with .get(duration_type, 0).
duration_map(dtype, tpq) ==
    CASE dtype = "whole"   -> tpq * 4
      [] dtype = "half"    -> tpq * 2
      [] dtype = "quarter" -> tpq
      [] dtype = "eighth"  -> tpq \div 2
      [] dtype = "16th"    -> tpq \div 4
      [] dtype = "32nd"    -> tpq \div 8
      [] dtype = "64th"    -> tpq \div 16
      [] dtype = "measure" -> tpq * 2
      [] dtype = "black"   -> tpq
      [] dtype = "breve"   -> tpq * 2
      [] OTHER             -> 0

\* Mutant of base_duration: the dotted value is rounded up.
base_duration_RoundedUp(dtype, dots, tpq) ==
    LET b == duration_map(dtype, tpq)
    IN IF dots THEN (b * 3 + 1) \div 2 ELSE b

\* base_duration of an element: the table value, int(base * 1.5) when dotted.
base_duration(dtype, dots, tpq) ==
    LET b == duration_map(dtype, tpq)
    IN IF dots THEN (b * 3) \div 2 ELSE b

NoteOn(t, p) == [tick |-> t, type |-> "note_on", pitch |-> p]
NoteOff(t, p) == [tick |-> t, type |-> "note_off", pitch |-> p]

\* dict helpers: a dict is a function whose domain is its key set.
DictSet(d, k, v) == [x \in (DOMAIN d) \cup {k} |-> IF x = k THEN v ELSE d[x]]
DictPop(d, k) == [x \in (DOMAIN d) \ {k} |-> d[x]]
EmptyDict == [x \in {} |-> 0]

\* Mutant of ExtendTie: the segment's duration replaces the accumulated one.
ExtendTie_Overwrite(ot, p, base) == DictSet(ot, p, <<ot[p][1], base>>)

\* Line 98: the open chain of `pitch` grows by this segment's duration.
ExtendTie(ot, p, base) == DictSet(ot, p, <<ot[p][1], ot[p][2] + base>>)

\* Lines 101-103: the pair emitted when a chain closes, from the popped entry.
ClosePair(entry, p) == <<NoteOn(entry[1], p), NoteOff(entry[1] + entry[2], p)>>

\* Mutant of PlainPair: the NoteOff is put at the cursor itself.
PlainPair_OffAtCursor(tick, base, p) == <<NoteOn(tick, p), NoteOff(tick, p)>>

\* Lines 108-109: the pair emitted for a note with no tie marker.
PlainPair(tick, base, p) == <<NoteOn(tick, p), NoteOff(tick + base, p)>>

\* Mutant of OpenTie: a pitch that is already open keeps its entry.
OpenTie_KeepFirst(ot, p, tick, base) ==
    IF p \in DOMAIN ot THEN ot ELSE DictSet(ot, p, <<tick, base>>)

\* Line 106: a chain is opened at the cursor, over any entry of the pitch.
OpenTie(ot, p, tick, base) == DictSet(ot, p, <<tick, base>>)

\* Mutant of HandleNote: a Note tied from a previous one whose pitch is not
\* open opens a chain when it is tied to a next one too.
HandleNote_OrphanOpens(st, n, base, tick, s) ==
    LET p == n.pitch
        hit == p \in DOMAIN st.ot
        ext == IF n.prev /\ hit THEN ExtendTie(st.ot, p, base)
               ELSE IF n.prev /\ n.next THEN OpenTie(st.ot, p, tick, base)
               ELSE st.ot
        closes == n.prev /\ ~n.next /\ hit
        ot1 == IF n.prev
               THEN (IF closes THEN DictPop(ext, p) ELSE ext)
               ELSE (IF n.next THEN OpenTie(st.ot, p, tick, base) ELSE st.ot)
        ev1 == IF n.prev
               THEN (IF closes THEN st.ev \o ClosePair(ext[p], p) ELSE st.ev)
               ELSE (IF n.next THEN st.ev ELSE st.ev \o PlainPair(tick, base, p))
        tv1 == IF n.prev
               THEN (IF closes THEN DictPop(st.tv, p)
                     ELSE IF ~hit /\ n.next THEN DictSet(st.tv, p, VoiceOf(s))
                     ELSE st.tv)
               ELSE (IF n.next THEN DictSet(st.tv, p, VoiceOf(s)) ELSE st.tv)
        entry == [slot |-> s, pitch |-> p, prev |-> n.prev, next |-> n.next,
                  dur |-> base, tick |-> tick,
                  owner |-> IF hit THEN st.tv[p] ELSE 0,
                  ev0 |-> Len(st.ev), ev1 |-> Len(ev1)]
    IN [ev |-> ev1, ot |-> ot1, tv |-> tv1, log |-> Append(st.log, entry)]

\* The body of `for note_node in element.findall('Note')` for one Note
\* (lines 91-109). st = [ev, ot, tv, log]: events, open_ties and the two
\* histories tie_voice and noteLog.
HandleNote(st, n, base, tick, s) ==
    LET p == n.pitch
        hit == p \in DOMAIN st.ot
        ext == IF n.prev /\ hit THEN ExtendTie(st.ot, p, base) ELSE st.ot
        closes == n.prev /\ ~n.next /\ hit
        ot1 == IF n.prev
               THEN (IF closes THEN DictPop(ext, p) ELSE ext)
               ELSE (IF n.next THEN OpenTie(st.ot, p, tick, base) ELSE st.ot)
        ev1 == IF n.prev
               THEN (IF closes THEN st.ev \o ClosePair(ext[p], p) ELSE st.ev)
               ELSE (IF n.next THEN st.ev ELSE st.ev \o PlainPair(tick, base, p))
        tv1 == IF n.prev
               THEN (IF closes THEN DictPop(st.tv, p) ELSE st.tv)
               ELSE (IF n.next THEN DictSet(st.tv, p, VoiceOf(s)) ELSE st.tv)
        entry == [slot |-> s, pitch |-> p, prev |-> n.prev, next |-> n.next,
                  dur |-> base, tick |-> tick,
                  owner |-> IF hit THEN st.tv[p] ELSE 0,
                  ev0 |-> Len(st.ev), ev1 |-> Len(ev1)]
    IN [ev |-> ev1, ot |-> ot1, tv |-> tv1, log |-> Append(st.log, entry)]

RECURSIVE HandleNotes(_, _, _, _, _)
HandleNotes(st, notes, base, tick, s) ==
    IF notes = <<>> THEN st
    ELSE HandleNotes(HandleNote(st, Head(notes), base, tick, s),
                     Tail(notes), base, tick, s)

\* Mutant of CursorAfterChord: the cursor is advanced once per Note.
CursorAfterChord_PerNote(tick, base, notes) == tick + base * Len(notes)

\* Line 110: the cursor after a Chord, whatever Notes it holds.
CursorAfterChord(tick, base, notes) == tick + base

ElemEntry(tag, dc, notes, base) ==
    [slot |-> slot, tag |-> tag, dtype |-> dc[1], dots |-> dc[2],
     notes |-> notes, dur |-> base, tick |-> current_tick,
     ev0 |-> Len(events)]

InitStaff ==
    /\ division \in Divisions
    /\ events = <<>>
    /\ current_tick = 0
    /\ open_ties = EmptyDict
    /\ slot = 1
    /\ nElems = 0
    /\ staff_pc = "scan"
    /\ tie_voice = EmptyDict
    /\ noteLog = <<>>
    /\ elemLog = <<>>
    /\ IdleKey /\ IdleSplit /\ IdleTrack /\ IdleDur /\ IdleEnh /\ IdleConv

\* One iteration of `for element in voice` on a Chord with a durationType.
ReadChord(dc, notes) ==
    /\ staff_pc = "scan"
    /\ nElems < MaxElems
    /\ LET base == base_duration(dc[1], dc[2], division)
           st == HandleNotes([ev |-> events, ot |-> open_ties, tv |-> tie_voice,
                              log |-> noteLog],
                             notes, base, current_tick, slot)
       IN /\ events' = st.ev
          /\ open_ties' = st.ot
          /\ tie_voice' = st.tv
          /\ noteLog' = st.log
          /\ current_tick' = CursorAfterChord(current_tick, base, notes)
          /\ elemLog' = Append(elemLog, ElemEntry("Chord", dc, notes, base))
    /\ nElems' = nElems + 1
    /\ UNCHANGED <<division, slot, staff_pc>>
    /\ UNCHANGED notStaff

\* One iteration on a Rest with a durationType.
ReadRest(dc) ==
    /\ staff_pc = "scan"
    /\ nElems < MaxElems
    /\ LET base == base_duration(dc[1], dc[2], division)
       IN /\ current_tick' = current_tick + base
          /\ elemLog' = Append(elemLog, ElemEntry("Rest", dc, <<>>, base))
    /\ nElems' = nElems + 1
    /\ UNCHANGED <<division, events, open_ties, slot, staff_pc, tie_voice, noteLog>>
    /\ UNCHANGED notStaff

\* One iteration on an element without durationType (`continue`), or with one
\* but neither Chord nor Rest: nothing is changed.
ReadOther ==
    /\ staff_pc = "scan"
    /\ nElems < MaxElems
    /\ elemLog' = Append(elemLog, ElemEntry("Other", <<"none", FALSE>>, <<>>, 0))
    /\ nElems' = nElems + 1
    /\ UNCHANGED <<division, events, current_tick, open_ties, slot, staff_pc,
                   tie_voice, noteLog>>
    /\ UNCHANGED notStaff

\* Mutant of NextVoice: a further voice of a measure starts at the tick at
\* which the measure started.
NextVoice_ResetCursor ==
    /\ staff_pc = "scan"
    /\ slot < NumSlots
    /\ slot' = slot + 1
    /\ current_tick' =
          LET inMeasure == {i \in 1..Len(elemLog) :
                               MeasureOf(elemLog[i].slot) = MeasureOf(slot)}
          IN IF MeasureOf(slot + 1) = MeasureOf(slot) /\ inMeasure # {}
             THEN elemLog[CHOOSE i \in inMeasure : \A j \in inMeasure : i <= j].tick
             ELSE current_tick
    /\ UNCHANGED <<division, events, open_ties, nElems, staff_pc,
                   tie_voice, noteLog, elemLog>>
    /\ UNCHANGED notStaff

\* The voice is exhausted: the loops move to the next voice, or to the first
\* voice of the next measure. No variable of the function is reset.
NextVoice ==
    /\ staff_pc = "scan"
    /\ slot < NumSlots
    /\ slot' = slot + 1
    /\ UNCHANGED <<division, events, current_tick, open_ties, nElems, staff_pc,
                   tie_voice, noteLog, elemLog>>
    /\ UNCHANGED notStaff

\* `return events`: whatever is left in open_ties is not emitted.
ReturnEvents ==
    /\ staff_pc = "scan"
    /\ staff_pc' = "done"
    /\ UNCHANGED <<division, events, current_tick, open_ties, slot, nElems,
                   tie_voice, noteLog, elemLog>>
    /\ UNCHANGED notStaff

NextStaff ==
    \/ \E c \in ChordChoices : ReadChord(c[1], c[2])
    \/ \E dc \in DurChoices : ReadRest(dc)
    \/ ReadOther
    \/ NextVoice
    \/ ReturnEvents

SpecStaff == InitStaff /\ [][NextStaff]_vars

(***************************************************************************)
(* Duration of one element: the table and the dots, for every category.    *)
(***************************************************************************)
\* The categories of duration_map, and one that is not in it.
DurationTypes ==
    {"whole", "half", "quarter", "eighth", "16th", "32nd", "64th", "measure",
     "black", "breve", "bogus"}
DivisionValues == 1..MaxDivision

InitDur ==
    /\ dur_division \in DivisionValues
    /\ dur_type \in DurationTypes
    /\ dur_dots \in BOOLEAN
    /\ dur_ticks = -1
    /\ dur_pc = "resolve"
    /\ IdleStaff /\ IdleKey /\ IdleSplit /\ IdleTrack /\ IdleEnh /\ IdleConv

\* Lines 85-88: the duration of the element is looked up and dotted.
ResolveDuration ==
    /\ dur_pc = "resolve"
    /\ dur_ticks' = base_duration(dur_type, dur_dots, dur_division)
    /\ dur_pc' = "done"
    /\ UNCHANGED <<dur_division, dur_type, dur_dots>>
    /\ UNCHANGED notDur

NextDur == ResolveDuration

SpecDur == InitDur /\ [][NextDur]_vars

(***************************************************************************)
(* Key signature search: _get_key_signature.                               *)
(***************************************************************************)
\* SHARPS_TO_MAJOR and SHARPS_TO_MINOR (lines 15-22).
SHARPS_TO_MAJOR ==
    [f \in -7..7 |->
        CASE f = 0 -> "C" [] f = 1 -> "G" [] f = 2 -> "D" [] f = 3 -> "A"
          [] f = 4 -> "E" [] f = 5 -> "B" [] f = 6 -> "F#" [] f = 7 -> "C#"
          [] f = -1 -> "F" [] f = -2 -> "Bb" [] f = -3 -> "Eb" [] f = -4 -> "Ab"
          [] f = -5 -> "Db" [] f = -6 -> "Gb" [] f = -7 -> "Cb"]
SHARPS_TO_MINOR ==
    [f \in -7..7 |->
        CASE f = 0 -> "Am" [] f = 1 -> "Em" [] f = 2 -> "Bm" [] f = 3 -> "F#m"
          [] f = 4 -> "C#m" [] f = 5 -> "G#m" [] f = 6 -> "D#m" [] f = 7 -> "A#m"
          [] f = -1 -> "Dm" [] f = -2 -> "Gm" [] f = -3 -> "Cm" [] f = -4 -> "Fm"
          [] f = -5 -> "Bbm" [] f = -6 -> "Ebm" [] f = -7 -> "Abm"]

\* A text is a sequence of one-character strings.
IsSpace(c) == c = " "
IsDigit(c) == c \in {"0", "1", "2", "3", "4", "5", "6", "7", "8", "9"}
DigitVal(c) ==
    CASE c = "0" -> 0 [] c = "1" -> 1 [] c = "2" -> 2 [] c = "3" -> 3
      [] c = "4" -> 4 [] c = "5" -> 5 [] c = "6" -> 6 [] c = "7" -> 7
      [] c = "8" -> 8 [] c = "9" -> 9

\* str.strip(): leading and trailing whitespace removed.
RECURSIVE LStrip(_)
LStrip(t) == IF t # <<>> /\ IsSpace(Head(t)) THEN LStrip(Tail(t)) ELSE t
RECURSIVE RStrip(_)
RStrip(t) ==
    IF t # <<>> /\ IsSpace(t[Len(t)]) THEN RStrip(SubSeq(t, 1, Len(t) - 1)) ELSE t
Strip(t) == RStrip(LStrip(t))

\* int(text): an optional sign and one or more decimal digits, else ValueError.
Unsigned(t) == IF t # <<>> /\ Head(t) \in {"+", "-"} THEN Tail(t) ELSE t
IntParses(t) ==
    LET u == Unsigned(Strip(t))
    IN u # <<>> /\ \A i \in 1..Len(u) : IsDigit(u[i])
RECURSIVE DigitsVal(_, _)
DigitsVal(u, acc) ==
    IF u = <<>> THEN acc ELSE DigitsVal(Tail(u), 10 * acc + DigitVal(Head(u)))
IntOf(t) ==
    LET s == Strip(t)
        v == DigitsVal(Unsigned(s), 0)
    IN IF Head(s) = "-" THEN -v ELSE v

\* Input domain: the <accidental> child of a KeySig is absent ("NoNode"), has
\* no text ("NoText") or has a text; its <mode> child is absent or has a text.
AccTexts == {<<"2">>, <<"-", "3">>, <<" ", "0", " ">>, <<" ">>, <<"9">>,
             <<"-", "8">>, <<"x">>}
AccChoices ==
    {[kind |-> "NoNode", text |-> <<>>], [kind |-> "NoText", text |-> <<>>]}
    \cup {[kind |-> "Text", text |-> t] : t \in AccTexts}
ModeChoices == {"NoNode", "major", "minor", "lydian"}
KeySigNodes == [acc : AccChoices, mode : ModeChoices]

\* Line 47: mode_node.text if mode_node is not None else 'major'.
ModeOf(ks) == IF ks.mode # "NoNode" THEN ks.mode ELSE "major"

\* Mutant of KeyMapGet: the mode is ignored and the major table always used.
KeyMapGet_MajorOnly(mode, fifths) ==
    IF fifths \in DOMAIN SHARPS_TO_MAJOR THEN SHARPS_TO_MAJOR[fifths] ELSE "C"

\* Lines 49-50: the table chosen by the mode, and key_map.get(fifths, 'C').
KeyMapGet(mode, fifths) ==
    LET key_map == IF mode = "minor" THEN SHARPS_TO_MINOR ELSE SHARPS_TO_MAJOR
    IN IF fifths \in DOMAIN key_map THEN key_map[fifths] ELSE "C"

\* Line 40 and line 43: the accidental node is there, has a text, and the text
\* is not empty once stripped.
HasAccidentalText(ks) ==
    /\ ks.acc.kind = "Text"
    /\ Strip(ks.acc.text) # <<>>

InitKey ==
    /\ all_key_sigs \in SeqsUpTo(KeySigNodes, MaxKeySigs)
    /\ ks_i = 1
    /\ key_result = "none"
    /\ key_pc = "scan"
    /\ IdleStaff /\ IdleSplit /\ IdleTrack /\ IdleDur /\ IdleEnh /\ IdleConv

\* One iteration of `for i, ks_node in enumerate(all_key_sigs)` (lines 34-55):
\* a KeySig without accidental text is passed over; the first one with a text
\* ends the function, with the table entry (line 52) or, when int() raises,
\* with the 'C' of the except clause (lines 61-64).
KeySigIteration ==
    /\ key_pc = "scan"
    /\ ks_i <= Len(all_key_sigs)
    /\ LET ks == all_key_sigs[ks_i]
       IN IF HasAccidentalText(ks)
          THEN /\ key_result' = IF IntParses(ks.acc.text)
                                THEN KeyMapGet(ModeOf(ks), IntOf(ks.acc.text))
                                ELSE "C"
               /\ key_pc' = "done"
               /\ UNCHANGED ks_i
          ELSE /\ ks_i' = ks_i + 1
               /\ UNCHANGED <<key_result, key_pc>>
    /\ UNCHANGED all_key_sigs
    /\ UNCHANGED notKey

\* The loop ends without a return: line 59 returns 'C'.
KeySigExhausted ==
    /\ key_pc = "scan"
    /\ ks_i > Len(all_key_sigs)
    /\ key_result' = "C"
    /\ key_pc' = "done"
    /\ UNCHANGED <<all_key_sigs, ks_i>>
    /\ UNCHANGED notKey

NextKey == KeySigIteration \/ KeySigExhausted

SpecKey == InitKey /\ [][NextKey]_vars

(***************************************************************************)
(* Track analysis and hand split: _analyze_track_structure,                *)
(* _calculate_optimal_split, _optimize_for_smart_pianist.                  *)
(***************************************************************************)
\* Program constants.
DefaultSplit == 60
RegisterPitch == 60
MinRegisterNotes == 5
SearchLow == 48
SearchHigh == 72

\* Input domain: the pitches and channels of the note_on messages.
SplitPitches == {40, 57, 59, 60, 80}
Channels == {0, 1}

Max2(a, b) == IF a >= b THEN a ELSE b
Min2(a, b) == IF a <= b THEN a ELSE b

\* The pitches that occur in all_notes, and note_counts.get(note, 0).
NotesPresent(notes) == {n \in DOMAIN notes : notes[n] > 0}
NoteCount(notes, n) == IF n \in DOMAIN notes THEN notes[n] ELSE 0
MinNote(notes) == CHOOSE n \in NotesPresent(notes) : \A o \in NotesPresent(notes) : n <= o
MaxNote(notes) == CHOOSE n \in NotesPresent(notes) : \A o \in NotesPresent(notes) : n >= o

\* Lines 455-457: the number of notes within two semitones of the candidate.
Density(notes, c) ==
    NoteCount(notes, c - 2) + NoteCount(notes, c - 1) + NoteCount(notes, c)
    + NoteCount(notes, c + 1) + NoteCount(notes, c + 2)

\* Mutant of SearchStart: the scan starts at the lowest note, not clamped to 48.
SearchStart_Unclamped(notes) == MinNote(notes)

\* Lines 447-448: the candidates scanned.
SearchStart(notes) == Max2(SearchLow, MinNote(notes))
SearchEnd(notes) == Min2(SearchHigh, MaxNote(notes))

\* Mutant of ScanCandidates: a candidate of equal density replaces the best.
RECURSIVE ScanCandidates_LastWins(_, _, _, _, _)
ScanCandidates_LastWins(notes, c, last, best_split, min_density) ==
    IF c > last THEN best_split
    ELSE LET density == Density(notes, c)
         IN IF min_density = -1 \/ density <= min_density
            THEN ScanCandidates_LastWins(notes, c + 1, last, c, density)
            ELSE ScanCandidates_LastWins(notes, c + 1, last, best_split, min_density)

\* Lines 453-461: the ascending scan; min_density = -1 stands for float('inf').
RECURSIVE ScanCandidates(_, _, _, _, _)
ScanCandidates(notes, c, last, best_split, min_density) ==
    IF c > last THEN best_split
    ELSE LET density == Density(notes, c)
         IN IF min_density = -1 \/ density < min_density
            THEN ScanCandidates(notes, c + 1, last, c, density)
            ELSE ScanCandidates(notes, c + 1, last, best_split, min_density)

\* _calculate_optimal_split (lines 430-464).
CalculateOptimalSplit(notes) ==
    IF NotesPresent(notes) = {} THEN DefaultSplit
    ELSE ScanCandidates(notes, SearchStart(notes), SearchEnd(notes),
                        DefaultSplit, -1)

\* Mutant of SeparationCriterion: 5 notes in a register are enough.
SeparationCriterion_AtLeast5(channels, low, high) ==
    /\ Cardinality(channels) <= 1
    /\ low >= MinRegisterNotes
    /\ high >= MinRegisterNotes

\* Mutant of SeparationCriterion: the channels are not looked at.
SeparationCriterion_AnyChannels(channels, low, high) ==
    /\ low > MinRegisterNotes
    /\ high > MinRegisterNotes

\* Mutant of SeparationCriterion: the notes from 60 upwards are not counted.
SeparationCriterion_LowOnly(channels, low, high) ==
    /\ Cardinality(channels) <= 1
    /\ low > MinRegisterNotes

\* Mutant of SeparationCriterion: the notes below 60 are not counted.
SeparationCriterion_HighOnly(channels, low, high) ==
    /\ Cardinality(channels) <= 1
    /\ high > MinRegisterNotes

\* Lines 419-421: the criterion of separation.
SeparationCriterion(channels, low, high) ==
    /\ Cardinality(channels) <= 1
    /\ low > MinRegisterNotes
    /\ high > MinRegisterNotes

InitSplit ==
    /\ an_track = 0
    /\ has_notes = FALSE
    /\ musical_tracks = 0
    /\ channels_used = {}
    /\ dist_low = 0
    /\ dist_high = 0
    /\ all_notes = [n \in SplitPitches |-> 0]
    /\ needs_separation = FALSE
    /\ split_point = DefaultSplit
    /\ an_pc = "scan"
    /\ IdleStaff /\ IdleKey /\ IdleTrack /\ IdleDur /\ IdleEnh /\ IdleConv

\* Lines 414-415, at the end of the track being read.
TracksCounted == IF an_track > 0 /\ has_notes THEN musical_tracks + 1 ELSE musical_tracks

\* The outer loop enters the next track (lines 397-399).
AnalyzeNextTrack ==
    /\ an_pc = "scan"
    /\ an_track < MaxTracks
    /\ an_track' = an_track + 1
    /\ musical_tracks' = TracksCounted
    /\ has_notes' = FALSE
    /\ UNCHANGED <<channels_used, dist_low, dist_high, all_notes,
                   needs_separation, split_point, an_pc>>
    /\ UNCHANGED notSplit

\* A note_on message with velocity > 0 (lines 402-412).
AnalyzeNoteOn(channel, note) ==
    /\ an_pc = "scan"
    /\ an_track > 0
    /\ dist_low + dist_high < MaxSplitNotes
    /\ has_notes' = TRUE
    /\ channels_used' = channels_used \cup {channel}
    /\ all_notes' = [all_notes EXCEPT ![note] = @ + 1]
    /\ IF note < RegisterPitch
       THEN dist_low' = dist_low + 1 /\ UNCHANGED dist_high
       ELSE dist_high' = dist_high + 1 /\ UNCHANGED dist_low
    /\ UNCHANGED <<an_track, musical_tracks, needs_separation, split_point, an_pc>>
    /\ UNCHANGED notSplit

\* Any other message (line 402 is false): nothing is recorded.
AnalyzeOtherMessage ==
    /\ an_pc = "scan"
    /\ an_track > 0
    /\ UNCHANGED splitVars
    /\ UNCHANGED notSplit

\* The loops end and the decision is taken (lines 414-423).
AnalyzeDecide ==
    /\ an_pc = "scan"
    /\ musical_tracks' = TracksCounted
    /\ IF SeparationCriterion(channels_used, dist_low, dist_high)
       THEN /\ needs_separation' = TRUE
            /\ split_point' = CalculateOptimalSplit(all_notes)
       ELSE UNCHANGED <<needs_separation, split_point>>
    /\ an_pc' = "analyzed"
    /\ UNCHANGED <<an_track, has_notes, channels_used, dist_low, dist_high, all_notes>>
    /\ UNCHANGED notSplit

\* _optimize_for_smart_pianist, lines 363-368: the hands are separated, or the
\* existing tracks are copied with the metadata added.
OptimizeBranch ==
    /\ an_pc = "analyzed"
    /\ an_pc' = IF needs_separation THEN "separate" ELSE "enhance"
    /\ UNCHANGED <<an_track, has_notes, musical_tracks, channels_used, dist_low,
                   dist_high, all_notes, needs_separation, split_point>>
    /\ UNCHANGED notSplit

NextSplit ==
    \/ AnalyzeNextTrack
    \/ \E channel \in Channels, note \in SplitPitches : AnalyzeNoteOn(channel, note)
    \/ AnalyzeOtherMessage
    \/ AnalyzeDecide
    \/ OptimizeBranch

SpecSplit == InitSplit /\ [][NextSplit]_vars

(***************************************************************************)
(* Track assembly: DirectXMLtoMIDIConverter.convert (lines 145-170) and    *)
(* AdvancedMSCZConverter._create_separated_midi (lines 482-552).           *)
(***************************************************************************)
\* Input domain. An input event is [time, type, note]: for convert, time is
\* the absolute tick of a note event of get_note_events_from_staff; for
\* _create_separated_midi, time is the delta time of a message of a track.
EventTicks == {0, 480, 960}
DeltaTimes == {0, 480}
AssemblyNotes == {59, 60}
NoteTypes == {"note_on", "note_off"}
ControlTypes == {"control_change", "program_change"}
ConvertEvents == [time : EventTicks, type : NoteTypes, note : {60}]
TrackMessages ==
    [time : DeltaTimes, type : NoteTypes, note : AssemblyNotes]
    \cup [time : DeltaTimes, type : ControlTypes \cup {"set_tempo"}, note : {0}]
SplitPoints == {60}

\* Two input streams of at most n events together.
StreamPairs(S, n) ==
    UNION {[1..a -> S] \X [1..b -> S] : <<a, b>> \in {ab \in (0..n) \X (0..n) : ab[1] + ab[2] <= n}}

\* A merged event: absolute tick, message, and for convert its 'channel' tag.
Merged(tick, e, ch) == [tick |-> tick, type |-> e.type, note |-> e.note, channel |-> ch]

\* An output message: `time` is its delta time; `abs`, a history field, is the
\* absolute tick of the event it was made from.
Out(type, note, ch, delta, abs) ==
    [type |-> type, note |-> note, channel |-> ch, time |-> delta, abs |-> abs]

\* Mutant of InsertByTick: an event is put before the events of equal tick.
RECURSIVE InsertByTick_BeforeEqual(_, _)
InsertByTick_BeforeEqual(sorted, e) ==
    IF sorted = <<>> THEN <<e>>
    ELSE IF sorted[Len(sorted)].tick < e.tick THEN Append(sorted, e)
    ELSE Append(InsertByTick_BeforeEqual(SubSeq(sorted, 1, Len(sorted) - 1), e),
                sorted[Len(sorted)])

\* list.sort(key=tick): a stable sort, as an insertion after the last element
\* whose tick is not greater.
RECURSIVE InsertByTick(_, _)
InsertByTick(sorted, e) ==
    IF sorted = <<>> THEN <<e>>
    ELSE IF sorted[Len(sorted)].tick <= e.tick THEN Append(sorted, e)
    ELSE Append(InsertByTick(SubSeq(sorted, 1, Len(sorted) - 1), e),
                sorted[Len(sorted)])
RECURSIVE SortByTick(_)
SortByTick(es) ==
    IF es = <<>> THEN <<>>
    ELSE InsertByTick(SortByTick(SubSeq(es, 1, Len(es) - 1)), es[Len(es)])

\* convert, lines 153-155: the two event lists joined and tagged.
RECURSIVE TagEvents(_, _)
TagEvents(es, ch) ==
    IF es = <<>> THEN <<>>
    ELSE <<Merged(Head(es).time, Head(es), ch)>> \o TagEvents(Tail(es), ch)
ConvertJoined(input) == TagEvents(input[1], 0) \o TagEvents(input[2], 1)

\* _create_separated_midi, lines 485-490: each track's messages with their
\* absolute time, the four selected types only.
RECURSIVE TrackAbsolute(_, _)
TrackAbsolute(track, track_time) ==
    IF track = <<>> THEN <<>>
    ELSE LET t == track_time + Head(track).time
             rest == TrackAbsolute(Tail(track), t)
         IN IF Head(track).type \in NoteTypes \cup ControlTypes
            THEN <<Merged(t, Head(track), 0)>> \o rest
            ELSE rest
RECURSIVE CombinedEvents(_)
CombinedEvents(tracks) ==
    IF tracks = <<>> THEN <<>>
    ELSE TrackAbsolute(Head(tracks), 0) \o CombinedEvents(Tail(tracks))

\* Lines 162 and 517, 535: the delta of a right-hand message.
RightDelta(tick, last_r, last_l) == tick - last_r
\* Mutant of LeftDelta: the delta is taken against the right-hand cursor.
LeftDelta_RightCursor(tick, last_r, last_l) == tick - last_r

\* Lines 166 and 525, 543: the delta of a left-hand message.
LeftDelta(tick, last_r, last_l) == tick - last_l

\* The messages that open the hand tracks, all at time 0.
ConvertHeader(ch) ==
    <<Out("track_name", 0, ch, 0, 0), Out("key_signature", 0, ch, 0, 0),
      Out("program_change", 0, ch, 0, 0)>>
SeparateHeader(ch) ==
    <<Out("track_name", 0, ch, 0, 0), Out("program_change", 0, ch, 0, 0)>>

InitTrack ==
    /\ \/ /\ tr_mode = "convert"
          /\ tr_input \in StreamPairs(ConvertEvents, MaxTrackEvents)
          /\ tr_split = 0
       \/ /\ tr_mode = "separate"
          /\ tr_input \in StreamPairs(TrackMessages, MaxTrackEvents)
          /\ tr_split \in SplitPoints
    /\ merged = <<>>
    /\ tr_i = 0
    /\ right_track = <<>>
    /\ left_track = <<>>
    /\ last_right = 0
    /\ last_left = 0
    /\ tr_pc = "merge"
    /\ IdleStaff /\ IdleKey /\ IdleSplit /\ IdleDur /\ IdleEnh /\ IdleConv

\* convert, lines 145-158: the tracks are opened, the events joined and sorted.
ConvertMerge ==
    /\ tr_pc = "merge" /\ tr_mode = "convert"
    /\ right_track' = ConvertHeader(0)
    /\ left_track' = ConvertHeader(1)
    /\ merged' = SortByTick(ConvertJoined(tr_input))
    /\ tr_i' = 1
    /\ last_right' = 0 /\ last_left' = 0
    /\ tr_pc' = "emit"
    /\ UNCHANGED <<tr_mode, tr_input, tr_split>>
    /\ UNCHANGED notTrack

\* convert, lines 159-168: one iteration of the emitting loop.
ConvertEmit ==
    /\ tr_pc = "emit" /\ tr_mode = "convert"
    /\ tr_i <= Len(merged)
    /\ LET e == merged[tr_i]
       IN IF e.channel = 0
          THEN /\ right_track' = Append(right_track,
                     Out(e.type, e.note, 0, RightDelta(e.tick, last_right, last_left), e.tick))
               /\ last_right' = e.tick
               /\ UNCHANGED <<left_track, last_left>>
          ELSE /\ left_track' = Append(left_track,
                     Out(e.type, e.note, 1, LeftDelta(e.tick, last_right, last_left), e.tick))
               /\ last_left' = e.tick
               /\ UNCHANGED <<right_track, last_right>>
    /\ tr_i' = tr_i + 1
    /\ UNCHANGED <<tr_mode, tr_input, tr_split, merged, tr_pc>>
    /\ UNCHANGED notTrack

\* _create_separated_midi, lines 482-509.
SeparateCombine ==
    /\ tr_pc = "merge" /\ tr_mode = "separate"
    /\ right_track' = SeparateHeader(0)
    /\ left_track' = SeparateHeader(1)
    /\ merged' = SortByTick(CombinedEvents(tr_input))
    /\ tr_i' = 1
    /\ last_right' = 0 /\ last_left' = 0
    /\ tr_pc' = "emit"
    /\ UNCHANGED <<tr_mode, tr_input, tr_split>>
    /\ UNCHANGED notTrack

\* Mutant of HandsOf: a note at the split point itself goes to the left hand.
HandsOf_AboveSplitOnly(e, split) ==
    IF e.type \in NoteTypes
    THEN (IF e.note > split THEN {0} ELSE {1})
    ELSE {0, 1}
\* Mutant of HandsOf: a control message is copied to the right hand only.
HandsOf_ControlRightOnly(e, split) ==
    IF e.type \in NoteTypes
    THEN (IF e.note >= split THEN {0} ELSE {1})
    ELSE {0}

\* Lines 513-515, 523, 532: the channels of the hand tracks an event is
\* written to.
HandsOf(e, split) ==
    IF e.type \in NoteTypes
    THEN (IF e.note >= split THEN {0} ELSE {1})
    ELSE {0, 1}

\* _create_separated_midi, lines 512-548: one iteration of the emitting loop.
SeparateEmit ==
    /\ tr_pc = "emit" /\ tr_mode = "separate"
    /\ tr_i <= Len(merged)
    /\ LET e == merged[tr_i]
           r == Out(e.type, e.note, 0, RightDelta(e.tick, last_right, last_left), e.tick)
           l == Out(e.type, e.note, 1, LeftDelta(e.tick, last_right, last_left), e.tick)
           hands == HandsOf(e, tr_split)
       IN /\ IF 0 \in hands
             THEN right_track' = Append(right_track, r) /\ last_right' = e.tick
             ELSE UNCHANGED <<right_track, last_right>>
          /\ IF 1 \in hands
             THEN left_track' = Append(left_track, l) /\ last_left' = e.tick
             ELSE UNCHANGED <<left_track, last_left>>
    /\ tr_i' = tr_i + 1
    /\ UNCHANGED <<tr_mode, tr_input, tr_split, merged, tr_pc>>
    /\ UNCHANGED notTrack

\* The loop is over: the two tracks are appended to the file (lines 169-170,
\* 551-552).
TracksAppended ==
    /\ tr_pc = "emit"
    /\ tr_i > Len(merged)
    /\ tr_pc' = "done"
    /\ UNCHANGED <<tr_mode, tr_input, tr_split, merged, tr_i, right_track,
                   left_track, last_right, last_left>>
    /\ UNCHANGED notTrack

NextTrack ==
    \/ ConvertMerge
    \/ ConvertEmit
    \/ SeparateCombine
    \/ SeparateEmit
    \/ TracksAppended

SpecTrack == InitTrack /\ [][NextTrack]_vars

(***************************************************************************)
(* Copy with metadata: _enhance_existing_midi and _add_metadata_track.     *)
(***************************************************************************)
\* A message of the copied file: `text` holds a name or text, `a` and `b` its
\* numbers (note; tempo; numerator and denominator).
Msg(type, time, text, a, b) ==
    [type |-> type, time |-> time, text |-> text, a |-> a, b |-> b]
\* The messages of the original tracks.
EnhMessages ==
    {Msg("note_on", 0, "", 60, 0), Msg("note_on", 480, "", 60, 0),
     Msg("track_name", 0, "Piano", 0, 0)}
EnhTracks == SeqsUpTo(EnhMessages, MaxEnhMessages)

\* metadata: title "absent" stands for a missing key, "" and 0 for a missing
\* or empty value, key_signature "none" for None; time_signature is the text,
\* character by character.
Metadata(title, artist, composer, tempo, ts, key) ==
    [title |-> title, artist |-> artist, composer |-> composer, tempo |-> tempo,
     time_signature |-> ts, key_signature |-> key]
MetadataChoices ==
    {Metadata("absent", "", "", 0, <<>>, "none"),
     Metadata("Song", "Ana", "Bach", 2, <<"3", "/", "4">>, "D"),
     Metadata("Song", "", "Bach", 0, <<"3", "4">>, "none"),
     Metadata("absent", "Ana", "", 2, <<"x", "/", "4">>, "D"),
     Metadata("Song", "", "", 0, <<"3", "/", "4", "/", "4">>, "none")}

\* str.split('/'): the parts of the text between the slashes.
RECURSIVE SplitSlash(_, _, _)
SplitSlash(t, part, parts) ==
    IF t = <<>> THEN Append(parts, part)
    ELSE IF Head(t) = "/" THEN SplitSlash(Tail(t), <<>>, Append(parts, part))
    ELSE SplitSlash(Tail(t), Append(part, Head(t)), parts)

\* Lines 601-611: num, den = map(int, ...split('/')); any failure is passed over.
TimeSignatureMessages(ts) ==
    LET parts == SplitSlash(ts, <<>>, <<>>)
    IN IF ts # <<>> /\ Len(parts) = 2 /\ IntParses(parts[1]) /\ IntParses(parts[2])
       THEN <<Msg("time_signature", 0, "", IntOf(parts[1]), IntOf(parts[2]))>>
       ELSE <<>>

\* _add_metadata_track (lines 582-615): the messages it appends, all at time 0.
MetadataMessages(meta) ==
    LET title == IF meta.title = "absent" THEN "Untitled" ELSE meta.title
        artist == IF meta.artist # "" THEN meta.artist ELSE meta.composer
    IN <<Msg("track_name", 0, title, 0, 0)>>
       \o (IF artist # "" THEN <<Msg("copyright", 0, artist, 0, 0)>> ELSE <<>>)
       \o (IF meta.tempo # 0
           THEN <<Msg("set_tempo", 0, "", 60000000 \div (meta.tempo * 60), 0)>>
           ELSE <<>>)
       \o TimeSignatureMessages(meta.time_signature)
       \o (IF meta.key_signature # "none"
           THEN <<Msg("key_signature", 0, meta.key_signature, 0, 0)>>
           ELSE <<>>)

\* Mutant of EnhancedTrack: the metadata is appended after the copied messages.
EnhancedTrack_MetadataLast(i, track, meta) ==
    track \o (IF i = 0 THEN MetadataMessages(meta) ELSE <<>>)

\* Lines 568-576: the new track of index i (from 0): the metadata when it is
\* the first track, then a copy of every message.
EnhancedTrack(i, track, meta) ==
    (IF i = 0 THEN MetadataMessages(meta) ELSE <<>>) \o track

InitEnh ==
    /\ en_tracks \in SeqsUpTo(EnhTracks, MaxTracks)
    /\ en_meta \in MetadataChoices
    /\ en_new = <<>>
    /\ en_i = 0
    /\ en_pc = "copy"
    /\ IdleStaff /\ IdleKey /\ IdleSplit /\ IdleTrack /\ IdleDur /\ IdleConv

\* One iteration of `for i, track in enumerate(original_mid.tracks)`.
EnhanceTrack ==
    /\ en_pc = "copy"
    /\ en_i < Len(en_tracks)
    /\ en_new' = Append(en_new, EnhancedTrack(en_i, en_tracks[en_i + 1], en_meta))
    /\ en_i' = en_i + 1
    /\ UNCHANGED <<en_tracks, en_meta, en_pc>>
    /\ UNCHANGED notEnh

\* `return new_mid` (line 580).
EnhanceReturn ==
    /\ en_pc = "copy"
    /\ en_i = Len(en_tracks)
    /\ en_pc' = "done"
    /\ UNCHANGED <<en_tracks, en_meta, en_new, en_i>>
    /\ UNCHANGED notEnh

NextEnh ==
    \/ EnhanceTrack
    \/ EnhanceReturn

SpecEnh == InitEnh /\ [][NextEnh]_vars

(***************************************************************************)
(* The structural conversions as a whole: DirectXMLtoMIDIConverter.convert *)
(* (xml_to_midi.py) and YamahaCSPConverter.convert (converter.py).         *)
(***************************************************************************)
\* What get_note_events_from_staff returns for a Staff: nothing for a Staff
\* without notes, or the pair of one quarter note.
StaffEvents ==
    {<<>>,
     <<[time |-> 0, type |-> "note_on", note |-> 60],
       [time |-> 480, type |-> "note_off", note |-> 60]>>}
\* A message of the MIDI file MuseScore wrote; meta messages have no channel.
CspMsg(type, time, note, channel, is_meta) ==
    [type |-> type, time |-> time, note |-> note, channel |-> channel,
     is_meta |-> is_meta]
CspTracks ==
    {<<>>,
     <<CspMsg("set_tempo", 0, 0, -1, TRUE)>>,
     <<CspMsg("note_on", 0, 60, 0, FALSE), CspMsg("note_off", 480, 60, 0, FALSE)>>,
     <<CspMsg("track_name", 0, 0, -1, TRUE), CspMsg("note_on", 0, 64, 0, FALSE)>>}

\* convert, lines 159-168, as a function of the sorted events.
RECURSIVE EmitConvert(_, _, _, _, _)
EmitConvert(evs, right, left, last_r, last_l) ==
    IF evs = <<>> THEN <<right, left>>
    ELSE LET e == Head(evs)
         IN IF e.channel = 0
            THEN EmitConvert(Tail(evs),
                     Append(right, Out(e.type, e.note, 0,
                                       RightDelta(e.tick, last_r, last_l), e.tick)),
                     left, e.tick, last_l)
            ELSE EmitConvert(Tail(evs), right,
                     Append(left, Out(e.type, e.note, 1,
                                      LeftDelta(e.tick, last_r, last_l), e.tick)),
                     last_r, e.tick)
\* Lines 143-170: the two tracks made from the first two staves.
XmlTracks(staves) ==
    EmitConvert(SortByTick(ConvertJoined(<<staves[1], staves[2]>>)),
                ConvertHeader(0), ConvertHeader(1), 0, 0)

\* converter.py, line 85: the tracks that hold a note message.
IsNoteTrack(track) ==
    \E k \in 1..Len(track) : track[k].type \in {"note_on", "note_off"}
note_tracks(tracks) == SelectSeq(tracks, IsNoteTrack)
\* Lines 97-101, 109-113: the messages of a note track, the channel set on
\* those that are not meta messages.
RECURSIVE CspCopy(_, _)
CspCopy(track, ch) ==
    IF track = <<>> THEN <<>>
    ELSE LET m == Head(track)
         IN <<IF m.is_meta THEN m ELSE [m EXCEPT !.channel = ch]>>
            \o CspCopy(Tail(track), ch)
CspHeader(ch) ==
    <<CspMsg("track_name", 0, 0, -1, TRUE), CspMsg("program_change", 0, 0, ch, FALSE)>>
\* Lines 91-114: the two tracks made from the first two note tracks.
CspFinalTracks(tracks) ==
    <<CspHeader(0) \o CspCopy(note_tracks(tracks)[1], 0),
      CspHeader(1) \o CspCopy(note_tracks(tracks)[2], 1)>>

\* xml_to_midi.py line 137: len(all_staves); converter.py line 87:
\* len(note_tracks).
SourceCount(kind, sources) ==
    IF kind = "xml" THEN Len(sources) ELSE Len(note_tracks(sources))

InitConv ==
    /\ \/ /\ cv_kind = "xml"
          /\ cv_input \in {"unreadable", "no_division", "ok"}
          /\ cv_sources \in SeqsUpTo(StaffEvents, MaxSources)
       \/ /\ cv_kind = "csp"
          /\ cv_input \in {"failed", "ok"}
          /\ cv_sources \in SeqsUpTo(CspTracks, MaxSources)
    /\ cv_result = "none"
    /\ cv_saved = <<>>
    /\ cv_pc = "read"
    /\ IdleStaff /\ IdleKey /\ IdleSplit /\ IdleTrack /\ IdleDur /\ IdleEnh

\* xml_to_midi.py lines 119-133 (the archive, the score and <Division> are
\* read) and converter.py lines 72-81 (MuseScore writes the full MIDI file).
ConvRead ==
    /\ cv_pc = "read"
    /\ IF cv_input = "ok"
       THEN cv_pc' = "count" /\ UNCHANGED cv_result
       ELSE cv_pc' = "done" /\ cv_result' = "False"
    /\ UNCHANGED <<cv_kind, cv_input, cv_sources, cv_saved>>
    /\ UNCHANGED notConv

\* xml_to_midi.py lines 136-137 and converter.py lines 85-89: with fewer than
\* two sources the function returns False.
ConvCount ==
    /\ cv_pc = "count"
    /\ IF SourceCount(cv_kind, cv_sources) < 2
       THEN cv_pc' = "done" /\ cv_result' = "False"
       ELSE cv_pc' = "assemble" /\ UNCHANGED cv_result
    /\ UNCHANGED <<cv_kind, cv_input, cv_sources, cv_saved>>
    /\ UNCHANGED notConv

\* xml_to_midi.py lines 139-173 and converter.py lines 91-119: the two tracks
\* are built, the file is saved and True is returned.
ConvAssemble ==
    /\ cv_pc = "assemble"
    /\ cv_saved' = IF cv_kind = "xml" THEN XmlTracks(cv_sources)
                   ELSE CspFinalTracks(cv_sources)
    /\ cv_result' = "True"
    /\ cv_pc' = "done"
    /\ UNCHANGED <<cv_kind, cv_input, cv_sources>>
    /\ UNCHANGED notConv

NextConv ==
    \/ ConvRead
    \/ ConvCount
    \/ ConvAssemble

SpecConv == InitConv /\ [][NextConv]_vars

(***************************************************************************)
(* Claims about the staff traversal (checked under SpecStaff).             *)
(***************************************************************************)
\* The tie chain that the Note of noteLog[k] would close, read backwards
\* over the Notes of the same pitch p in the same voice v: ok when the Notes
\* before it are middle segments (prev and next) down to a first segment
\* (next only); start is the cursor when the first segment was read, total the
\* sum of the segments' durations, quiet whether the earlier segments emitted
\* nothing.
RECURSIVE ChainBack(_, _, _, _, _)
ChainBack(i, v, p, acc, quiet) ==
    IF i = 0 THEN [ok |-> FALSE, start |-> 0, total |-> 0, quiet |-> FALSE]
    ELSE LET e == noteLog[i]
         IN IF VoiceOf(e.slot) # v \/ e.pitch # p
            THEN ChainBack(i - 1, v, p, acc, quiet)
            ELSE IF ~e.prev /\ e.next
            THEN [ok |-> TRUE, start |-> e.tick, total |-> acc + e.dur,
                  quiet |-> quiet /\ e.ev0 = e.ev1]
            ELSE IF e.prev /\ e.next
            THEN ChainBack(i - 1, v, p, acc + e.dur, quiet /\ e.ev0 = e.ev1)
            ELSE [ok |-> FALSE, start |-> 0, total |-> 0, quiet |-> FALSE]

ChainClosedAt(k) ==
    ChainBack(k - 1, VoiceOf(noteLog[k].slot), noteLog[k].pitch,
              noteLog[k].dur, TRUE)

\* The events appended while the Note of noteLog[k] was handled.
EmittedAt(k) == SubSeq(events, noteLog[k].ev0 + 1, noteLog[k].ev1)

\* C1: every well-formed tie chain of one voice (first segment tied to next
\* only, middle segments tied both ways, last segment tied from previous only)
\* yields exactly one NoteOn, at the cursor value when its first segment was
\* read, and one NoteOff, at that tick plus the sum of the segments' durations.
C1_TieChainMerged ==
    \A k \in 1..Len(noteLog) :
        LET e == noteLog[k]
            c == ChainClosedAt(k)
        IN (e.prev /\ ~e.next /\ c.ok) =>
              /\ c.quiet
              /\ EmittedAt(k) = <<NoteOn(c.start, e.pitch),
                                  NoteOff(c.start + c.total, e.pitch)>>

\* The scenario of C2: the staff starts with a half note tied to the quarter
\* note of the same pitch that follows it, the quarter not tied to a next note.
HalfTiedToQuarter(p) ==
    /\ division = 480
    /\ Len(elemLog) >= 2
    /\ elemLog[1].tag = "Chord" /\ elemLog[1].dtype = "half" /\ ~elemLog[1].dots
    /\ elemLog[1].notes = <<[pitch |-> p, prev |-> FALSE, next |-> TRUE]>>
    /\ elemLog[2].tag = "Chord" /\ elemLog[2].dtype = "quarter" /\ ~elemLog[2].dots
    /\ elemLog[2].notes = <<[pitch |-> p, prev |-> TRUE, next |-> FALSE]>>

\* The events emitted by the first two elements of the staff.
EventsOfFirstTwo ==
    SubSeq(events, 1, IF Len(elemLog) >= 3 THEN elemLog[3].ev0 ELSE Len(events))

\* C2 as stated: with division 480, a half note tied to a following quarter
\* note of the same pitch yields a single NoteOn at tick 0 and a single NoteOff
\* at tick 720.
C2_HalfTiedQuarter720 ==
    \A p \in Pitches :
        HalfTiedToQuarter(p) => EventsOfFirstTwo = <<NoteOn(0, p), NoteOff(720, p)>>

\* C2 as amended: with division 480 the half note lasts 960 ticks and the
\* quarter note 480, so the single NoteOn is at tick 0 and the single NoteOff
\* at tick 1440.
C2_HalfTiedQuarter1440 ==
    \A p \in Pitches :
        HalfTiedToQuarter(p) => EventsOfFirstTwo = <<NoteOn(0, p), NoteOff(1440, p)>>

C2_Witness ==
    /\ HalfTiedToQuarter(60)
    /\ events = <<NoteOn(0, 60), NoteOff(1440, 60)>>
    /\ current_tick = 1440

\* The events come in pairs: events[2k-1] is the NoteOn and events[2k] the
\* NoteOff of the same note or tie chain.
PairIndexes == 1..(Len(events) \div 2)
PairsWellFormed ==
    /\ Len(events) % 2 = 0
    /\ \A k \in PairIndexes :
          /\ events[2 * k - 1].type = "note_on"
          /\ events[2 * k].type = "note_off"
          /\ events[2 * k - 1].pitch = events[2 * k].pitch

\* Every Chord read so far resolved to a positive duration.
AllChordsPositive ==
    \A i \in 1..Len(elemLog) : elemLog[i].tag = "Chord" => elemLog[i].dur > 0

\* C4 as stated: for every emitted pair, NoteOn.tick < NoteOff.tick.
C4_StrictlyPositive ==
    \A k \in PairIndexes : events[2 * k - 1].tick < events[2 * k].tick

\* C4 as amended: for every emitted pair NoteOn.tick <= NoteOff.tick, and
\* NoteOn.tick < NoteOff.tick when every Chord of the staff resolved to a
\* positive duration (a Chord of an unknown category resolves to 0 and its
\* untied note is emitted with NoteOn.tick = NoteOff.tick).
C4_NonNegativeDuration ==
    /\ PairsWellFormed
    /\ \A k \in PairIndexes :
          /\ events[2 * k - 1].tick <= events[2 * k].tick
          /\ AllChordsPositive => events[2 * k - 1].tick < events[2 * k].tick

\* A tie chain closed and an untied note emitted, all of positive duration.
C4_Witness ==
    /\ AllChordsPositive
    /\ \E k \in 1..Len(noteLog) :
          noteLog[k].prev /\ ~noteLog[k].next /\ noteLog[k].ev1 = noteLog[k].ev0 + 2
    /\ \E k \in 1..Len(noteLog) :
          ~noteLog[k].prev /\ ~noteLog[k].next /\ noteLog[k].ev1 = noteLog[k].ev0 + 2

\* C5: a chain opened by a note of one voice is never extended or closed by a
\* tied-from-previous note of the same pitch in a different voice: whenever
\* such a note finds its pitch in open_ties, the entry was made in its voice.
C5_TiesScopedPerVoice ==
    \A k \in 1..Len(noteLog) :
        (noteLog[k].prev /\ noteLog[k].owner # 0) =>
            noteLog[k].owner = VoiceOf(noteLog[k].slot)

(***************************************************************************)
(* Claims about the key signature search (checked under SpecKey).          *)
(***************************************************************************)
\* The accidental count of declaration i is an integer of -7..7.
ValidDecl(i) ==
    LET ks == all_key_sigs[i]
    IN /\ HasAccidentalText(ks)
       /\ IntParses(ks.acc.text)
       /\ IntOf(ks.acc.text) \in -7..7

\* The accidental count of declaration i is given but is out of -7..7 or is
\* not an integer.
BadDecl(i) == HasAccidentalText(all_key_sigs[i]) /\ ~ValidDecl(i)

\* The key name the tables give for declaration i, a valid one.
TableKey(i) ==
    LET ks == all_key_sigs[i]
        f == IntOf(ks.acc.text)
    IN IF ks.mode = "minor" THEN SHARPS_TO_MINOR[f] ELSE SHARPS_TO_MAJOR[f]

\* C6: a declaration whose accidental count is out of -7..7 or does not parse
\* falls back alone and the scan goes on, so the first valid declaration after
\* it still determines the returned key.
C6_ScanContinuesAfterBad ==
    key_pc = "done" =>
        \A j \in 1..Len(all_key_sigs) :
            ( /\ ValidDecl(j)
              /\ \A i \in 1..(j - 1) : ~ValidDecl(i)
              /\ \E i \in 1..(j - 1) : BadDecl(i) )
            => key_result = TableKey(j)

\* The first declaration, in document order, whose accidental field is
\* present and not blank; 0 when there is none.
FirstWithText ==
    LET S == {i \in 1..Len(all_key_sigs) : HasAccidentalText(all_key_sigs[i])}
    IN IF S = {} THEN 0 ELSE CHOOSE i \in S : \A j \in S : i <= j

\* C7: the function returns the table entry for (fifths, mode) of the first
\* declaration whose accidental field is present and not blank, whatever the
\* later declarations are, with mode major when no mode is given, and 'C' when
\* no declaration has such a field; fifths 2 with mode minor gives 'Bm'.
C7_FirstDeclarationWins ==
    key_pc = "done" =>
        LET q == FirstWithText
        IN /\ q = 0 => key_result = "C"
           /\ (q # 0 /\ ValidDecl(q)
                 /\ all_key_sigs[q].mode \in {"NoNode", "major", "minor"})
              => key_result = TableKey(q)
           /\ (q # 0 /\ ValidDecl(q) /\ IntOf(all_key_sigs[q].acc.text) = 2
                 /\ all_key_sigs[q].mode = "minor")
              => key_result = "Bm"

\* A blank declaration is passed over and the next one, 2 sharps in minor,
\* gives the key.
C7_Witness ==
    /\ key_pc = "done"
    /\ Len(all_key_sigs) = 2
    /\ all_key_sigs[1].acc = [kind |-> "Text", text |-> <<" ">>]
    /\ all_key_sigs[2] = [acc |-> [kind |-> "Text", text |-> <<"2">>],
                          mode |-> "minor"]
    /\ key_result = "Bm"

(***************************************************************************)
(* Claims about the track analysis and the hand split (under SpecSplit).   *)
(***************************************************************************)
\* What _calculate_optimal_split returns for the notes collected so far.
SplitOfNotes == CalculateOptimalSplit(all_notes)
NoNotes == \A n \in DOMAIN all_notes : all_notes[n] = 0
LowestNote == CHOOSE n \in DOMAIN all_notes :
                 all_notes[n] > 0 /\ \A o \in DOMAIN all_notes : all_notes[o] > 0 => n <= o
HighestNote == CHOOSE n \in DOMAIN all_notes :
                 all_notes[n] > 0 /\ \A o \in DOMAIN all_notes : all_notes[o] > 0 => n >= o

\* C8 as stated: for a non-empty pitch multiset the result lies in [48,72] and
\* in [min(pitches), max(pitches)]; for the empty multiset it is 60.
C8_SplitInWindowAndRange ==
    an_pc # "idle" =>
        LET r == SplitOfNotes
        IN IF NoNotes THEN r = 60
           ELSE /\ 48 <= r /\ r <= 72
                /\ LowestNote <= r /\ r <= HighestNote

\* C8 as amended: the result always lies in [48,72]; when the pitches reach
\* into the window (min <= 72 and max >= 48) it also lies in [min, max]; when
\* all pitches are below 48 or all above 72, or there is none, it is 60.
C8_SplitInWindow ==
    an_pc # "idle" =>
        LET r == SplitOfNotes
        IN /\ 48 <= r /\ r <= 72
           /\ IF NoNotes THEN r = 60
              ELSE IF LowestNote <= 72 /\ HighestNote >= 48
              THEN LowestNote <= r /\ r <= HighestNote
              ELSE r = 60

\* Notes below 48 and above 72: both ends of the scan are clamped, and the
\* sparsest candidate is not 60.
C8_Witness ==
    /\ an_pc = "separate"
    /\ LowestNote = 40 /\ HighestNote = 80
    /\ split_point = SplitOfNotes
    /\ split_point = 48

\* The note-on events counted from the notes themselves.
NotesBelow60 ==
    LET RECURSIVE Sum(_)
        Sum(S) == IF S = {} THEN 0
                  ELSE LET n == CHOOSE x \in S : TRUE
                       IN all_notes[n] + Sum(S \ {n})
    IN Sum({n \in DOMAIN all_notes : n < 60})
NotesFrom60 ==
    LET RECURSIVE Sum(_)
        Sum(S) == IF S = {} THEN 0
                  ELSE LET n == CHOOSE x \in S : TRUE
                       IN all_notes[n] + Sum(S \ {n})
    IN Sum({n \in DOMAIN all_notes : n >= 60})

Analyzed == an_pc \in {"analyzed", "separate", "enhance"}

\* C9: needs_separation is true if and only if the note-on events use at most
\* one channel, more than 5 of them are below pitch 60 and more than 5 are at
\* or above 60.
C9_SeparationIff ==
    Analyzed =>
        (needs_separation <=>
            /\ Cardinality(channels_used) <= 1
            /\ NotesBelow60 > 5
            /\ NotesFrom60 > 5)

\* Separation is decided with 6 notes in each register, on one channel.
C9_Witness ==
    /\ Analyzed /\ needs_separation
    /\ NotesBelow60 = 6 /\ NotesFrom60 = 6
    /\ Cardinality(channels_used) = 1

\* C10 as stated: with two or more channels, or two or more note-bearing
\* tracks, needs_separation stays false, the split is not computed and the
\* tracks are only copied.
C10_SeparatedInputKept ==
    (Analyzed /\ (Cardinality(channels_used) >= 2 \/ musical_tracks >= 2)) =>
        /\ ~needs_separation
        /\ an_pc # "separate"

\* C10 as amended: with two or more channels needs_separation stays false, the
\* split point keeps its default and the tracks are only copied; the number of
\* note-bearing tracks is not part of the decision.
C10_TwoChannelsKept ==
    (Analyzed /\ Cardinality(channels_used) >= 2) =>
        /\ ~needs_separation
        /\ split_point = 60
        /\ an_pc # "separate"

\* Two channels, both registers populated, and the tracks were copied.
C10_Witness ==
    /\ an_pc = "enhance"
    /\ Cardinality(channels_used) = 2
    /\ NotesBelow60 > 5 /\ NotesFrom60 > 5
    /\ ~needs_separation

(***************************************************************************)
(* Claims about the track assembly (checked under SpecTrack).              *)
(***************************************************************************)
\* The sum of the delta times of the first k messages of a track.
DeltaSum(track, k) ==
    LET times == [i \in 1..k |-> track[i].time]
    IN SumSeq(times)

DeltasConsistent(track, ch) ==
    \A k \in 1..Len(track) :
        /\ track[k].time >= 0
        /\ DeltaSum(track, k) = track[k].abs
        /\ track[k].channel = ch

\* C3: in both hand tracks, during and after the assembly, every delta time
\* is non-negative and the delta times of every prefix add up to the absolute
\* tick of the prefix's last event: each hand's deltas follow that hand's own
\* cursor; the right-hand track is on channel 0, the left-hand one on 1.
C3_DeltasFollowOwnCursor ==
    /\ DeltasConsistent(right_track, 0)
    /\ DeltasConsistent(left_track, 1)

\* Both hands have a NoteOn at tick 960; the left hand played at 480 before,
\* the right hand did not: the deltas are 960 on the right and 480 on the left.
C3_Witness ==
    /\ tr_pc = "done" /\ tr_mode = "convert"
    /\ \E i \in 1..Len(right_track) :
          right_track[i] = Out("note_on", 60, 0, 960, 960)
    /\ \E j \in 1..Len(left_track) :
          left_track[j] = Out("note_on", 60, 1, 480, 960)

(***************************************************************************)
(* Claims about the hand routing of _create_separated_midi (SpecTrack).    *)
(***************************************************************************)
\* The positions <<track, index>> of the messages of the input file.
InputPositions ==
    {tj \in (1..Len(tr_input)) \X (1..MaxTrackEvents + 1) :
        tj[2] <= Len(tr_input[tj[1]])}
\* The absolute time of the j-th message of input track t: the sum of the
\* delta times up to it.
InputAbs(t, j) == SumSeq([i \in 1..j |-> tr_input[t][i].time])
\* A message as <<absolute time, type, note>>.
InputTriple(t, j) == <<InputAbs(t, j), tr_input[t][j].type, tr_input[t][j].note>>
InputCount(x, types) ==
    Cardinality({tj \in InputPositions :
        /\ tr_input[tj[1]][tj[2]].type \in types
        /\ InputTriple(tj[1], tj[2]) = x})
\* The number of messages of a hand track, after its header, that are x.
HandCount(track, x, types) ==
    Cardinality({k \in (Len(SeparateHeader(0)) + 1)..Len(track) :
        /\ track[k].type \in types
        /\ <<track[k].abs, track[k].type, track[k].note>> = x})
HandTriples(track, types) ==
    {<<track[k].abs, track[k].type, track[k].note>> :
        k \in {j \in (Len(SeparateHeader(0)) + 1)..Len(track) : track[j].type \in types}}
InputTriples(types) ==
    {InputTriple(tj[1], tj[2]) :
        tj \in {p \in InputPositions : tr_input[p[1]][p[2]].type \in types}}
SeparateDone == tr_mode = "separate" /\ tr_pc = "done"

\* C11: once _create_separated_midi has run, every note_on/note_off of the
\* input is in exactly one hand track, as often as in the input: in the
\* right-hand track with channel 0 when its pitch is >= split_point, in the
\* left-hand track with channel 1 when its pitch is below; the hand tracks
\* hold no other note message.
C11_NotesRoutedBySplit ==
    SeparateDone =>
        /\ \A x \in InputTriples(NoteTypes) \cup HandTriples(right_track, NoteTypes)
                    \cup HandTriples(left_track, NoteTypes) :
              IF x[3] >= tr_split
              THEN /\ HandCount(right_track, x, NoteTypes) = InputCount(x, NoteTypes)
                   /\ HandCount(left_track, x, NoteTypes) = 0
              ELSE /\ HandCount(left_track, x, NoteTypes) = InputCount(x, NoteTypes)
                   /\ HandCount(right_track, x, NoteTypes) = 0
        /\ \A k \in 1..Len(right_track) : right_track[k].channel = 0
        /\ \A k \in 1..Len(left_track) : left_track[k].channel = 1

\* C11 witness: a file with a note at the split point and a note below it has
\* been separated, one note in each hand track.
C11_Witness ==
    /\ SeparateDone
    /\ \E x \in HandTriples(right_track, NoteTypes) : x[3] = tr_split
    /\ \E x \in HandTriples(left_track, NoteTypes) : x[3] < tr_split
    /\ \E x \in InputTriples(NoteTypes) : InputCount(x, NoteTypes) = 2

\* The messages of a hand track that follow its header.
AfterHeader(track) == (Len(SeparateHeader(0)) + 1)..Len(track)

\* C18: every control_change and program_change of the input is written once
\* to each hand track (channel 0 and channel 1) with the absolute tick it has
\* in the input; the delta time of each copy is the distance to the message
\* before it in its own track, and after the event both cursors are at its
\* tick.
C18_ControlsOnBothHands ==
    /\ SeparateDone =>
          /\ \A x \in InputTriples(ControlTypes) \cup HandTriples(right_track, ControlTypes)
                      \cup HandTriples(left_track, ControlTypes) :
                /\ HandCount(right_track, x, ControlTypes) = InputCount(x, ControlTypes)
                /\ HandCount(left_track, x, ControlTypes) = InputCount(x, ControlTypes)
          /\ \A k \in AfterHeader(right_track) :
                right_track[k].type \in ControlTypes =>
                    /\ right_track[k].channel = 0
                    /\ right_track[k].time = right_track[k].abs - right_track[k - 1].abs
          /\ \A k \in AfterHeader(left_track) :
                left_track[k].type \in ControlTypes =>
                    /\ left_track[k].channel = 1
                    /\ left_track[k].time = left_track[k].abs - left_track[k - 1].abs
    /\ (tr_mode = "separate" /\ tr_pc \in {"emit", "done"} /\ tr_i > 1) =>
          (merged[tr_i - 1].type \in ControlTypes =>
              /\ last_right = merged[tr_i - 1].tick
              /\ last_left = merged[tr_i - 1].tick)

\* C18 witness: a control message was copied to both hands at tick 480 with
\* different delta times, the right-hand cursor having moved before it.
C18_Witness ==
    /\ SeparateDone
    /\ \E k \in AfterHeader(right_track), j \in AfterHeader(left_track) :
          /\ right_track[k].type \in ControlTypes
          /\ left_track[j].type = right_track[k].type
          /\ left_track[j].abs = right_track[k].abs
          /\ right_track[k].abs > 0
          /\ right_track[k].time # left_track[j].time

(***************************************************************************)
(* Claims about the merge of the event streams (SpecTrack).                *)
(***************************************************************************)
\* The input streams in the order in which the code concatenates them.
Concatenated ==
    IF tr_mode = "convert" THEN ConvertJoined(tr_input) ELSE CombinedEvents(tr_input)
\* Whether an event of the concatenation is written to the hand track of
\* channel ch.
WrittenTo(e, ch) ==
    IF tr_mode = "convert" THEN e.channel = ch
    ELSE \/ e.type \in ControlTypes
         \/ e.type \in NoteTypes /\ (e.note >= tr_split <=> ch = 0)
AtTick(es, t) == SelectSeq(es, LAMBDA e : e.tick = t)
HandEventsAt(track, n, t) ==
    SelectSeq(SubSeq(track, n + 1, Len(track)), LAMBDA m : m.abs = t)
InputEventsAt(ch, t) ==
    SelectSeq(Concatenated, LAMBDA e : e.tick = t /\ WrittenTo(e, ch))
SameEvents(ms, es) ==
    /\ Len(ms) = Len(es)
    /\ \A i \in 1..Len(ms) :
          ms[i].abs = es[i].tick /\ ms[i].type = es[i].type /\ ms[i].note = es[i].note
HeaderLen == IF tr_mode = "convert" THEN Len(ConvertHeader(0)) ELSE Len(SeparateHeader(0))
TicksOf(es) == {es[i].tick : i \in 1..Len(es)}
HandInOrder(track, ch) ==
    /\ \A i, j \in (HeaderLen + 1)..Len(track) : i < j => track[i].abs <= track[j].abs
    /\ \A t \in TicksOf(Concatenated) :
          SameEvents(HandEventsAt(track, HeaderLen, t), InputEventsAt(ch, t))

\* C19: the merged list is in ascending tick order and its events of one
\* tick are in the order they have in the concatenated input streams; each
\* output track is in ascending tick order and holds its events of one tick
\* in that same input order.
C19_MergeStableByTick ==
    /\ tr_pc \in {"emit", "done"} =>
          /\ \A i, j \in 1..Len(merged) : i < j => merged[i].tick <= merged[j].tick
          /\ \A t \in TicksOf(Concatenated) \cup TicksOf(merged) :
                AtTick(merged, t) = AtTick(Concatenated, t)
    /\ tr_pc = "done" =>
          /\ HandInOrder(right_track, 0)
          /\ HandInOrder(left_track, 1)

\* C19 witness: an output track holds a note_off before a note_on of the same
\* tick, as the input had them, after an event of a later tick came earlier in
\* the concatenation.
C19_Witness ==
    /\ tr_pc = "done"
    /\ \E i, j \in 1..Len(Concatenated) :
          i < j /\ Concatenated[i].tick > Concatenated[j].tick
    /\ \E k \in (HeaderLen + 1)..(Len(right_track) - 1) :
          /\ right_track[k].abs = right_track[k + 1].abs
          /\ right_track[k].type = "note_off"
          /\ right_track[k + 1].type = "note_on"

(***************************************************************************)
(* Claims about the choice of the split candidate (SpecSplit).             *)
(***************************************************************************)
\* The number of notes of all_notes whose pitch is within two semitones of p.
RECURSIVE CountNear(_, _)
CountNear(S, p) ==
    IF S = {} THEN 0
    ELSE LET n == CHOOSE x \in S : TRUE
         IN (IF n >= p - 2 /\ n <= p + 2 THEN all_notes[n] ELSE 0)
            + CountNear(S \ {n}, p)
DensityAt(p) == CountNear(DOMAIN all_notes, p)
CandidateLow == IF LowestNote > SearchLow THEN LowestNote ELSE SearchLow
CandidateHigh == IF HighestNote < SearchHigh THEN HighestNote ELSE SearchHigh

\* C17: when notes were read and the candidate range [max(48,min),
\* min(72,max)] is not empty, _calculate_optimal_split returns a candidate of
\* the range whose density (notes at p-2..p+2) is the least, and the smallest
\* such candidate.
C17_SmallestLeastDense ==
    (an_pc = "scan" /\ ~NoNotes /\ CandidateLow <= CandidateHigh) =>
        LET r == SplitOfNotes
        IN /\ r \in CandidateLow..CandidateHigh
           /\ \A q \in CandidateLow..CandidateHigh : DensityAt(r) <= DensityAt(q)
           /\ \A q \in CandidateLow..(r - 1) : DensityAt(q) > DensityAt(r)

\* C17 witness: the first candidate is not the least dense, and a later
\* candidate is as dense as the one returned.
C17_Witness ==
    /\ an_pc = "scan" /\ ~NoNotes /\ CandidateLow <= CandidateHigh
    /\ LET r == SplitOfNotes
       IN /\ r > CandidateLow
          /\ \E q \in (r + 1)..CandidateHigh : DensityAt(q) = DensityAt(r)

(***************************************************************************)
(* Claims about the duration of one element (SpecDur).                     *)
(***************************************************************************)
\* The undotted value of the element's category.
BaseTicks == duration_map(dur_type, dur_division)

\* C13: the duration of a dotted element is floor(1.5 * base_ticks), that is
\* base_ticks + base_ticks div 2, for every category and Division.
C13_DottedIsFloorOfOneAndHalf ==
    (dur_pc = "done" /\ dur_dots) =>
        /\ dur_ticks = BaseTicks + (BaseTicks \div 2)
        /\ 2 * dur_ticks <= 3 * BaseTicks
        /\ 3 * BaseTicks < 2 * dur_ticks + 2

\* C13 witness: a dotted element of odd base duration, where 1.5 * base is
\* not an integer.
C13_Witness ==
    /\ dur_pc = "done" /\ dur_dots
    /\ BaseTicks % 2 = 1
    /\ dur_ticks > BaseTicks

(***************************************************************************)
(* Claims about single elements of the staff traversal (SpecStaff).        *)
(***************************************************************************)
\* The categories of the duration table.
TableCategories ==
    {"whole", "half", "quarter", "eighth", "16th", "32nd", "64th", "measure",
     "black", "breve"}
\* The step reads one element; ReadElem is that element's record.
ElemRead == Len(elemLog') = Len(elemLog) + 1
ReadElem == elemLog'[Len(elemLog')]
\* The step reads a Chord or a Rest whose category is not in the table.
UnknownCategoryRead ==
    /\ ElemRead
    /\ ReadElem.tag \in {"Chord", "Rest"}
    /\ ReadElem.dtype \notin TableCategories
\* What one Note of duration 0 does to events and open_ties.
ZeroLengthNote(n) ==
    LET p == n.pitch
        open == p \in DOMAIN open_ties
    IN IF ~n.prev /\ ~n.next
       THEN /\ events' = events \o <<NoteOn(current_tick, p), NoteOff(current_tick, p)>>
            /\ open_ties' = open_ties
       ELSE IF ~n.prev
       THEN /\ events' = events
            /\ DOMAIN open_ties' = DOMAIN open_ties \cup {p}
            /\ open_ties'[p] = <<current_tick, 0>>
            /\ \A q \in DOMAIN open_ties \ {p} : open_ties'[q] = open_ties[q]
       ELSE IF open /\ ~n.next
       THEN /\ events' = events \o <<NoteOn(open_ties[p][1], p),
                                     NoteOff(open_ties[p][1] + open_ties[p][2], p)>>
            /\ DOMAIN open_ties' = DOMAIN open_ties \ {p}
            /\ \A q \in DOMAIN open_ties' : open_ties'[q] = open_ties[q]
       ELSE events' = events /\ open_ties' = open_ties

\* C14: reading a Chord or Rest whose category is not in the duration table
\* leaves the cursor where it is and does not end the traversal; the events
\* and the open ties change as for an element of duration 0: an untied note
\* gives a NoteOn and a NoteOff at the current tick.
C14_UnknownCategoryIsZero ==
    [][UnknownCategoryRead =>
          /\ current_tick' = current_tick
          /\ staff_pc' = "scan"
          /\ IF ReadElem.tag = "Chord" /\ Len(ReadElem.notes) = 1
             THEN ZeroLengthNote(ReadElem.notes[1])
             ELSE /\ Len(ReadElem.notes) = 0
                  /\ events' = events /\ open_ties' = open_ties]_vars

\* C14 witness: the first Chord, of an unknown category, gave a zero-length
\* pair at tick 0, and the quarter note read after it starts at tick 0 too.
C14_Witness ==
    /\ Len(elemLog) >= 2 /\ Len(events) >= 4
    /\ elemLog[1].tag = "Chord" /\ elemLog[1].dtype \notin TableCategories
    /\ elemLog[2].tag = "Chord" /\ elemLog[2].dtype = "quarter"
    /\ events[1].tick = 0 /\ events[2].tick = 0
    /\ events[1].type = "note_on" /\ events[2].type = "note_off"
    /\ events[3].tick = 0 /\ events[3].type = "note_on"
    /\ events[4].tick = division /\ events[4].type = "note_off"

(***************************************************************************)
(* Claims about tie chains that do not close (SpecStaff).                  *)
(***************************************************************************)
Opens(k) == ~noteLog[k].prev /\ noteLog[k].next
Emits(k) == noteLog[k].ev1 = noteLog[k].ev0 + 2
Silent(k) == noteLog[k].ev1 = noteLog[k].ev0
\* Whether o is the last Note before k that opened a chain of k's pitch.
LastOpening(o, k) ==
    /\ o < k /\ Opens(o) /\ noteLog[o].pitch = noteLog[k].pitch
    /\ \A j \in (o + 1)..(k - 1) :
          ~(Opens(j) /\ noteLog[j].pitch = noteLog[k].pitch)
\* The durations of the opening Note o and of the tied-from-previous Notes of
\* the same pitch after it, up to k.
DurationSince(o, k) ==
    SumSeq([i \in 1..(k - o + 1) |->
        LET j == o + i - 1
        IN IF noteLog[j].pitch = noteLog[k].pitch /\ (j = o \/ noteLog[j].prev)
           THEN noteLog[j].dur ELSE 0])
EmittingNotes ==
    {k \in 1..Len(noteLog) : (~noteLog[k].prev /\ ~noteLog[k].next) \/ Emits(k)}

\* C15: a chain that does not close gives no event. A Note that opens or
\* continues a chain emits nothing, so a chain still in open_ties at the
\* return left no event; the events are the pairs of the untied Notes and of
\* the closing Notes only; and a closing Note emits the start tick and the
\* duration of the chain opened last for its pitch, nothing of a chain that a
\* later opening replaced.
C15_DanglingChainsDropped ==
    /\ \A k \in 1..Len(noteLog) :
          /\ noteLog[k].next => Silent(k)
          /\ (noteLog[k].prev /\ ~noteLog[k].next) =>
                \/ Silent(k)
                \/ /\ Emits(k)
                   /\ \E o \in 1..(k - 1) :
                         /\ LastOpening(o, k)
                         /\ events[noteLog[k].ev0 + 1] =
                               NoteOn(noteLog[o].tick, noteLog[k].pitch)
                         /\ events[noteLog[k].ev0 + 2] =
                               NoteOff(noteLog[o].tick + DurationSince(o, k),
                                       noteLog[k].pitch)
    /\ Len(events) = 2 * Cardinality(EmittingNotes)
    /\ staff_pc = "done" =>
          \A p \in DOMAIN open_ties, o \in 1..Len(noteLog) :
              (Opens(o) /\ noteLog[o].pitch = p
               /\ \A j \in (o + 1)..Len(noteLog) :
                     ~(Opens(j) /\ noteLog[j].pitch = p)) =>
                  \A k \in (o + 1)..Len(noteLog) :
                      (noteLog[k].pitch = p /\ noteLog[k].prev) => Silent(k)

\* C15 witness: pitch 64 was opened, opened again and then closed, the pair
\* starting where it was opened again; the chain of pitch 60 opened by the
\* last Chord is still open at the return and the pair is the only output.
C15_Witness ==
    /\ staff_pc = "done"
    /\ Len(noteLog) = 4 /\ Len(events) = 2
    /\ Opens(1) /\ Opens(2) /\ noteLog[1].pitch = 64 /\ noteLog[2].pitch = 64
    /\ noteLog[1].tick < noteLog[2].tick
    /\ Opens(3) /\ noteLog[3].pitch = 60
    /\ Emits(4)
    /\ events[1] = NoteOn(noteLog[2].tick, 64)
    /\ events[2] = NoteOff(noteLog[2].tick + noteLog[2].dur + noteLog[4].dur, 64)
    /\ DOMAIN open_ties = {60}

(***************************************************************************)
(* Claims about the cursor over Rests and Chords (SpecStaff).              *)
(***************************************************************************)
\* The resolved duration of the element the step reads.
ReadElemDuration == base_duration(ReadElem.dtype, ReadElem.dots, division)

\* C20: reading a Rest moves the cursor by the Rest's resolved duration and
\* leaves the events and the open ties as they are; reading a Chord handles
\* each of its Notes at the cursor the Chord was met at and then moves the
\* cursor once by the Chord's resolved duration, whatever the number of Notes
\* and their tie markers.
C20_CursorAdvancesOncePerElement ==
    [][ElemRead =>
          /\ ReadElem.tag = "Rest" =>
                /\ current_tick' = current_tick + ReadElemDuration
                /\ events' = events
                /\ open_ties' = open_ties
          /\ ReadElem.tag = "Chord" =>
                /\ current_tick' = current_tick + ReadElemDuration
                /\ Len(noteLog') = Len(noteLog) + Len(ReadElem.notes)
                /\ \A k \in (Len(noteLog) + 1)..Len(noteLog') :
                      noteLog'[k].tick = current_tick]_vars

\* C20 witness: a Rest, a Chord without Notes and a Chord of two Notes, one
\* of them tied, were read; the cursor is the sum of the three durations and
\* both Notes were handled at the cursor of their Chord.
C20_Witness ==
    /\ Len(elemLog) = 3
    /\ elemLog[1].tag = "Rest" /\ elemLog[1].dur > 0
    /\ elemLog[2].tag = "Chord" /\ Len(elemLog[2].notes) = 0 /\ elemLog[2].dur > 0
    /\ elemLog[3].tag = "Chord" /\ Len(elemLog[3].notes) = 2
    /\ \E i \in 1..2 : elemLog[3].notes[i].next
    /\ Len(noteLog) = 2
    /\ noteLog[1].tick = elemLog[1].dur + elemLog[2].dur
    /\ noteLog[2].tick = noteLog[1].tick
    /\ current_tick = elemLog[1].dur + elemLog[2].dur + elemLog[3].dur

(***************************************************************************)
(* Claims about the copy with metadata (SpecEnh).                          *)
(***************************************************************************)
MetadataTypes ==
    {"track_name", "copyright", "set_tempo", "time_signature", "key_signature"}
\* The number of messages put before the copy of the first track.
AddedCount == Len(en_new[1]) - Len(en_tracks[1])

\* C16: _enhance_existing_midi returns as many tracks as it was given; every
\* track but the first is the same sequence of messages and delta times; the
\* first is that of the input after some metadata messages of delta time 0.
C16_EnhanceKeepsTracks ==
    en_pc = "done" =>
        /\ Len(en_new) = Len(en_tracks)
        /\ \A i \in 2..Len(en_tracks) : en_new[i] = en_tracks[i]
        /\ Len(en_tracks) >= 1 =>
              /\ AddedCount >= 0
              /\ SubSeq(en_new[1], AddedCount + 1, Len(en_new[1])) = en_tracks[1]
              /\ \A k \in 1..AddedCount :
                    en_new[1][k].time = 0 /\ en_new[1][k].type \in MetadataTypes

\* C16 witness: a file of two tracks with delta times above 0 was copied and
\* five metadata messages stand before the first track's own messages.
C16_Witness ==
    /\ en_pc = "done"
    /\ Len(en_tracks) = 2
    /\ AddedCount = 5
    /\ \E k \in 1..Len(en_tracks[1]) : en_tracks[1][k].time > 0
    /\ \E k \in 1..Len(en_tracks[2]) : en_tracks[2][k].time > 0
    /\ en_tracks[1][1].type = "track_name"

(***************************************************************************)
(* Claims about the structural conversions as a whole (SpecConv).          *)
(***************************************************************************)
\* The sources of the input that hold at least one note.
NoteBearingSources ==
    IF cv_kind = "xml"
    THEN {i \in 1..Len(cv_sources) : cv_sources[i] # <<>>}
    ELSE {i \in 1..Len(cv_sources) :
             \E k \in 1..Len(cv_sources[i]) :
                 cv_sources[i][k].type \in {"note_on", "note_off"}}

\* C12: when the input has fewer than two staves or tracks that hold notes,
\* the conversion returns False and saves no tracks.
C12_TooFewSourcesFails ==
    (cv_pc = "done" /\ Cardinality(NoteBearingSources) < 2) =>
        /\ cv_result = "False"
        /\ cv_saved = <<>>

(***************************************************************************)
(* Claims about the split point that the separation uses (SpecSplit).      *)
(***************************************************************************)
\* _create_separated_midi is about to run with the analysis.
SeparationChosen == an_pc = "separate"
\* A note_on that was read goes to the right hand / to the left hand.
RightHandHasNote == \E n \in DOMAIN all_notes : all_notes[n] > 0 /\ n >= split_point
LeftHandHasNote == \E n \in DOMAIN all_notes : all_notes[n] > 0 /\ n < split_point

\* C21 as stated: when the hands are separated, there is a note with pitch
\* >= split_point and a note with pitch < split_point.
C21_BothHandsGetNotes ==
    SeparationChosen => (RightHandHasNote /\ LeftHandHasNote)

\* C21 as amended: when the hands are separated there is a note with pitch
\* >= split_point; there is one with pitch < split_point when the lowest
\* pitch is below 48, and in general exactly when split_point is not the
\* lowest pitch itself.
C21_RightHandGetsNotes ==
    SeparationChosen =>
        /\ RightHandHasNote
        /\ LowestNote < SearchLow => LeftHandHasNote
        /\ LeftHandHasNote <=> split_point # LowestNote

\* C21 witness: the hands are separated at the lowest pitch, so that no note
\* is left for the left hand.
C21_Witness ==
    /\ SeparationChosen
    /\ split_point = LowestNote
    /\ RightHandHasNote /\ ~LeftHandHasNote

\* C24: whenever needs_separation is true the candidate range
\* [max(48,min), min(72,max)] is not empty and split_point is one of its
\* candidates, so 48 <= split_point <= 72 and min <= split_point <= max.
C24_SeparationSplitIsCandidate ==
    needs_separation =>
        /\ ~NoNotes
        /\ CandidateLow <= CandidateHigh
        /\ split_point \in CandidateLow..CandidateHigh
        /\ SearchLow <= split_point /\ split_point <= SearchHigh
        /\ LowestNote <= split_point /\ split_point <= HighestNote

\* C24 witness: needs_separation is true for notes that reach below 48 and
\* above 72, and the split point is not 60.
C24_Witness ==
    /\ needs_separation
    /\ LowestNote < SearchLow /\ HighestNote > SearchHigh
    /\ split_point # DefaultSplit

(***************************************************************************)
(* Claims about a tie from a previous note without an open chain, and      *)
(* about the cursor over voices and measures (SpecStaff).                  *)
(***************************************************************************)
\* Note i of the Chord the step reads is tied from a previous note, and its
\* pitch is in open_ties neither before the Chord nor through another Note of
\* the Chord.
OrphanTiedNote(i) ==
    LET notes == ReadElem.notes
    IN /\ notes[i].prev
       /\ notes[i].pitch \notin DOMAIN open_ties
       /\ \A j \in 1..Len(notes) : j # i => notes[j].pitch # notes[i].pitch

\* C22: a Note tied from a previous one whose pitch has no entry in open_ties
\* appends no event and makes no entry, also when it is tied to a next one;
\* the cursor moves by the duration of its Chord all the same.
C22_TieWithoutChainIsSkipped ==
    [][(ElemRead /\ ReadElem.tag = "Chord") =>
          \A i \in 1..Len(ReadElem.notes) :
              OrphanTiedNote(i) =>
                  /\ noteLog'[Len(noteLog) + i].ev1 = noteLog'[Len(noteLog) + i].ev0
                  /\ ReadElem.notes[i].pitch \notin DOMAIN open_ties'
                  /\ Len(ReadElem.notes) = 1 =>
                        (events' = events /\ open_ties' = open_ties)
                  /\ current_tick' = current_tick + ReadElemDuration]_vars

\* C22 witness: the first Note of the staff is tied from a previous one and to
\* a next one; after it and a closing Note of the same pitch nothing was
\* emitted, no chain is open and the cursor stands after both Chords.
C22_Witness ==
    /\ Len(elemLog) = 2 /\ Len(noteLog) = 2
    /\ noteLog[1].prev /\ noteLog[1].next
    /\ noteLog[2].prev /\ ~noteLog[2].next
    /\ noteLog[2].pitch = noteLog[1].pitch
    /\ elemLog[1].dur > 0 /\ elemLog[2].dur > 0
    /\ events = <<>>
    /\ DOMAIN open_ties = {}
    /\ current_tick = elemLog[1].dur + elemLog[2].dur

\* The resolved duration of the i-th element read: that of its category and
\* dots for a Chord or Rest, nothing for another element.
ElemDuration(i) ==
    IF elemLog[i].tag \in {"Chord", "Rest"}
    THEN base_duration(elemLog[i].dtype, elemLog[i].dots, division)
    ELSE 0
DurationsBefore(i) == SumSeq([j \in 1..(i - 1) |-> ElemDuration(j)])

\* C23: the cursor is the sum of the resolved durations of all Chords and
\* Rests read so far in the staff, over all voices and measures; every
\* element was met at the sum of the durations before it, so the cursor never
\* went back and a voice starts where the voice before it ended.
C23_CursorIsSumOfDurations ==
    staff_pc \in {"scan", "done"} =>
        /\ current_tick = DurationsBefore(Len(elemLog) + 1)
        /\ \A i \in 1..Len(elemLog) :
              /\ elemLog[i].tick = DurationsBefore(i)
              /\ elemLog[i].tick <= current_tick
              /\ \A j \in 1..(i - 1) : elemLog[j].tick <= elemLog[i].tick
        /\ \A i \in 1..(Len(elemLog) - 1) :
              elemLog[i + 1].slot # elemLog[i].slot =>
                  elemLog[i + 1].tick = elemLog[i].tick + ElemDuration(i)

\* C23 witness: the first voice of measure 1 held one element of positive
\* duration, the second voice starts at the tick where it ended, and the
\* first voice of measure 2 where the second voice ended.
C23_Witness ==
    /\ Len(elemLog) = 3
    /\ elemLog[1].slot = 1 /\ elemLog[2].slot = 2 /\ elemLog[3].slot = 3
    /\ elemLog[1].dur > 0 /\ elemLog[2].dur > 0 /\ elemLog[3].dur > 0
    /\ elemLog[2].tick = elemLog[1].dur
    /\ elemLog[3].tick = elemLog[1].dur + elemLog[2].dur
    /\ current_tick = elemLog[1].dur + elemLog[2].dur + elemLog[3].dur

====
